---- MODULE Spec2Model ----
(***************************************************************************)
(* A model of the nyanc lexer (src/src/lib.rs).  A source text is a        *)
(* sequence of characters; the byte cursor (current_pos, start_pos) counts *)
(* UTF-8 bytes, the character iterator (chars) counts characters.          *)
(* One action is one public call: Lexer::next_token or Iterator::next.     *)
(* tokens is the sequence of tokens next_token has returned, calls the     *)
(* lexer state before and after each of these calls, ret the value the     *)
(* last call returned and op the operation it was.  peer is a second Lexer *)
(* over its own text that reports to the same collector, and origin names, *)
(* for each entry of the collector, the Lexer whose call it arrived in.    *)
(***************************************************************************)
EXTENDS Integers, Sequences, FiniteSets, TLC

VARIABLES source, chars, current_pos, start_pos, line, column, diagnostics,
          tokens, calls, ret, op, peer, origin

vars == <<source, chars, current_pos, start_pos, line, column, diagnostics,
          tokens, calls, ret, op, peer, origin>>

(***************************************************************************)
(* Bounds of the model.                                                    *)
(***************************************************************************)
MaxLen == 2
MaxStrLen == 4
MaxNumLen == 4
MaxPunctLen == 1
MaxSharedLen == 2
MaxEofCalls == 2

(***************************************************************************)
(* Characters.  A character is a one-character string, or the name of a    *)
(* non-ASCII character.  None is Option::None of Option<char>.             *)
(***************************************************************************)
None == "None"
Quote == "\""
Backslash == "\\"
Newline == "\n"
EAcute == "U+00E9"
ArabicThree == "U+0663"
CjkMiddle == "U+4E2D"
Grinning == "U+1F600"

CodePoint(c) ==
  CASE c = "\t" -> 9   [] c = Newline -> 10 [] c = "\r" -> 13 [] c = " " -> 32
    [] c = Quote -> 34 [] c = "&" -> 38 [] c = "(" -> 40 [] c = ")" -> 41
    [] c = "*" -> 42   [] c = "+" -> 43 [] c = "," -> 44 [] c = "-" -> 45
    [] c = "." -> 46   [] c = "/" -> 47 [] c = "0" -> 48 [] c = "1" -> 49
    [] c = "2" -> 50   [] c = "3" -> 51 [] c = "4" -> 52 [] c = "5" -> 53
    [] c = "6" -> 54   [] c = "9" -> 57 [] c = ":" -> 58 [] c = ";" -> 59
    [] c = "=" -> 61   [] c = ">" -> 62 [] c = "@" -> 64 [] c = "F" -> 70
    [] c = "T" -> 84   [] c = Backslash -> 92 [] c = "^" -> 94 [] c = "_" -> 95
    [] c = "a" -> 97   [] c = "b" -> 98 [] c = "c" -> 99 [] c = "d" -> 100
    [] c = "e" -> 101  [] c = "f" -> 102 [] c = "h" -> 104 [] c = "i" -> 105
    [] c = "l" -> 108  [] c = "m" -> 109 [] c = "n" -> 110 [] c = "o" -> 111 [] c = "p" -> 112
    [] c = "q" -> 113  [] c = "r" -> 114 [] c = "s" -> 115 [] c = "t" -> 116
    [] c = "u" -> 117  [] c = "v" -> 118 [] c = "w" -> 119 [] c = "y" -> 121 [] c = "{" -> 123
    [] c = "}" -> 125  [] c = EAcute -> 233 [] c = ArabicThree -> 1635
    [] c = CjkMiddle -> 20013 [] c = Grinning -> 128512

\* char::len_utf8
len_utf8_one_byte(c) == 1

len_utf8(c) ==
  LET cp == CodePoint(c) IN
  IF cp < 128 THEN 1 ELSE IF cp < 2048 THEN 2 ELSE IF cp < 65536 THEN 3 ELSE 4

\* The UTF-8 encoding of one character: the bytes a &str holds for it.
Utf8(c) ==
  LET cp == CodePoint(c) IN
  IF cp < 128 THEN <<cp>>
  ELSE IF cp < 2048 THEN <<192 + (cp \div 64), 128 + (cp % 64)>>
  ELSE IF cp < 65536
    THEN <<224 + (cp \div 4096), 128 + ((cp \div 64) % 64), 128 + (cp % 64)>>
    ELSE <<240 + (cp \div 262144), 128 + ((cp \div 4096) % 64),
           128 + ((cp \div 64) % 64), 128 + (cp % 64)>>

\* The bytes of a source text (the &str the lexer slices).
RECURSIVE Bytes(_)
Bytes(src) ==
  IF src = <<>> THEN <<>> ELSE Utf8(Head(src)) \o Bytes(Tail(src))

\* char::is_ascii_digit
is_ascii_digit(c) == c # None /\ CodePoint(c) \in 48..57

\* char::is_alphabetic
is_alphabetic(c) ==
  /\ c # None
  /\ \/ CodePoint(c) \in 65..90
     \/ CodePoint(c) \in 97..122
     \/ c \in {EAcute, CjkMiddle}

\* char::is_alphanumeric: alphabetic or numeric (any Unicode number)
is_alphanumeric(c) ==
  is_alphabetic(c) \/ is_ascii_digit(c) \/ c = ArabicThree

(***************************************************************************)
(* The lexer.  A lexer state S is the record of the Lexer's mutable fields *)
(* (chars is the number of characters the Peekable<Chars> has yielded),    *)
(* with the shared collector's contents in S.diagnostics and, in S.iters,  *)
(* the number of inner-loop iterations run during the current call.        *)
(***************************************************************************)
Span(start, end) == [start |-> start, end |-> end]

LexerError(kind, ch, span) == [kind |-> kind, ch |-> ch, span |-> span]

\* DiagnosticsEngine::add_error as the lexer uses it: append
add_error_overwrite(S, err) == [S EXCEPT !.diagnostics = <<err>>]

add_error(S, err) == [S EXCEPT !.diagnostics = Append(@, err)]

\* Lexer::advance where chars.next() is Some(c); where it is None, nothing
\* changes
advance_no_pos(S, src) ==
  IF S.chars < Len(src)
    THEN [S EXCEPT !.chars = @ + 1, !.column = @ + 1]
    ELSE S

advance_always_column(S, src) ==
  IF S.chars < Len(src)
    THEN [S EXCEPT !.chars = @ + 1,
                   !.current_pos = @ + len_utf8(src[S.chars + 1]),
                   !.column = @ + 1]
    ELSE [S EXCEPT !.column = @ + 1]

advance(S, src) ==
  IF S.chars < Len(src)
    THEN [S EXCEPT !.chars = @ + 1,
                   !.current_pos = @ + len_utf8(src[S.chars + 1]),
                   !.column = @ + 1]
    ELSE S

peek(S, src) == IF S.chars < Len(src) THEN src[S.chars + 1] ELSE None

\* One more iteration of an inner loop
tick(S) == [S EXCEPT !.iters = @ + 1]

make_token_char_count(S, src, kind) ==
  [kind |-> kind,
   lexeme |-> SubSeq(Bytes(src), S.start_pos + 1, S.chars),
   span |-> Span(S.start_pos, S.current_pos)]

make_token(S, src, kind) ==
  [kind |-> kind,
   lexeme |-> SubSeq(Bytes(src), S.start_pos + 1, S.current_pos),
   span |-> Span(S.start_pos, S.current_pos)]

\* The characters skip_whitespace consumes
is_skipped_no_cr(c) == c = " " \/ c = "\t"

is_skipped_or_newline(c) == c = " " \/ c = "\t" \/ c = "\r" \/ c = Newline

is_skipped(c) == c = " " \/ c = "\t" \/ c = "\r"

RECURSIVE skip_whitespace(_, _)
skip_whitespace(S, src) ==
  LET c == peek(S, src) IN
  IF c # None /\ is_skipped(c)
    THEN skip_whitespace(tick(advance(S, src)), src)
    ELSE S

\* The digit loops of scan_number
RECURSIVE scan_digits(_, _)
scan_digits(S, src) ==
  IF is_ascii_digit(peek(S, src))
    THEN scan_digits(tick(advance(S, src)), src)
    ELSE S

\* The two-character lookahead of scan_number: the next character is '.'
\* and the one after it (read off a clone of the iterator) is an ASCII digit
float_ahead_dot_only(S, src) == peek(S, src) = "."

float_ahead(S, src) ==
  /\ peek(S, src) = "."
  /\ S.chars + 2 <= Len(src)
  /\ is_ascii_digit(src[S.chars + 2])

scan_number(S, src) ==
  LET S1 == scan_digits(S, src) IN
  IF float_ahead(S1, src)
    THEN LET S2 == scan_digits(advance(S1, src), src) IN
         [S |-> S2, token |-> make_token(S2, src, "Float")]
    ELSE [S |-> S1, token |-> make_token(S1, src, "Integer")]

\* The two end-of-input arms of scan_string
unterminated_no_error(S, src) ==
  [S |-> S, token |-> make_token(S, src, "Illegal")]

unterminated(S, src) ==
  LET S1 == add_error(S, LexerError("UnterminatedString", None,
                                    Span(S.start_pos, S.current_pos)))
  IN [S |-> S1, token |-> make_token(S1, src, "Illegal")]

\* The characters that may follow a backslash
valid_escape_no_quote(c) == c \in {Backslash, "n", "r", "t"}

valid_escape(c) == c \in {Quote, Backslash, "n", "r", "t"}

\* The invalid-escape arm of scan_string; the backslash is consumed, c is
\* the character peeked after it
invalid_escape_from_c(S, src, c) ==
  LET err_start == S.current_pos
      S1 == advance(S, src)
  IN add_error(S1, LexerError("InvalidEscapeSequence", c,
                              Span(err_start, S1.current_pos)))

invalid_escape(S, src, c) ==
  LET err_start == S.current_pos - 1
      S1 == advance(S, src)
  IN add_error(S1, LexerError("InvalidEscapeSequence", c,
                              Span(err_start, S1.current_pos)))

RECURSIVE scan_string(_, _)
scan_string(S, src) ==
  LET c == peek(S, src) IN
  IF c = Quote THEN
    LET S1 == advance(S, src) IN
    [S |-> S1, token |-> make_token(S1, src, "String")]
  ELSE IF c = None THEN unterminated(S, src)
  ELSE IF c = Newline THEN
    scan_string(tick([advance(S, src) EXCEPT !.line = @ + 1, !.column = 1]),
                src)
  ELSE IF c = Backslash THEN
    LET S1 == advance(S, src)
        e == peek(S1, src)
    IN IF valid_escape(e) THEN scan_string(tick(advance(S1, src)), src)
       ELSE IF e # None
         THEN scan_string(tick(invalid_escape(S1, src, e)), src)
         ELSE unterminated(S1, src)
  ELSE scan_string(tick(advance(S, src)), src)

\* The keyword table of scan_identifier, on the lexeme's bytes
Str(s) == Bytes(s)

keyword_kind_prefix(lexeme) ==
  LET starts(k) == Len(lexeme) >= Len(k) /\ SubSeq(lexeme, 1, Len(k)) = k IN
  IF starts(Str(<<"t","r","u","e">>)) \/ starts(Str(<<"f","a","l","s","e">>))
    THEN "Bool"
  ELSE IF starts(Str(<<"f","u","n">>)) THEN "Fun"
  ELSE IF starts(Str(<<"l","e","t">>)) THEN "Let"
  ELSE IF starts(Str(<<"i","f">>)) THEN "If"
  ELSE IF starts(Str(<<"e","l","s","e">>)) THEN "Else"
  ELSE IF starts(Str(<<"w","h","i","l","e">>)) THEN "While"
  ELSE IF starts(Str(<<"s","t","r","u","c","t">>)) THEN "Struct"
  ELSE IF starts(Str(<<"r","e","t","u","r","n">>)) THEN "Return"
  ELSE IF starts(Str(<<"p","u","b">>)) THEN "Pub"
  ELSE IF starts(Str(<<"u","s","e">>)) THEN "Use"
  ELSE "Identifier"

keyword_kind(lexeme) ==
  IF lexeme = Str(<<"t","r","u","e">>) \/ lexeme = Str(<<"f","a","l","s","e">>)
    THEN "Bool"
  ELSE IF lexeme = Str(<<"f","u","n">>) THEN "Fun"
  ELSE IF lexeme = Str(<<"l","e","t">>) THEN "Let"
  ELSE IF lexeme = Str(<<"i","f">>) THEN "If"
  ELSE IF lexeme = Str(<<"e","l","s","e">>) THEN "Else"
  ELSE IF lexeme = Str(<<"w","h","i","l","e">>) THEN "While"
  ELSE IF lexeme = Str(<<"s","t","r","u","c","t">>) THEN "Struct"
  ELSE IF lexeme = Str(<<"r","e","t","u","r","n">>) THEN "Return"
  ELSE IF lexeme = Str(<<"p","u","b">>) THEN "Pub"
  ELSE IF lexeme = Str(<<"u","s","e">>) THEN "Use"
  ELSE "Identifier"

RECURSIVE scan_ident_chars(_, _)
scan_ident_chars(S, src) ==
  LET c == peek(S, src) IN
  IF is_alphanumeric(c) \/ c = "_"
    THEN scan_ident_chars(tick(advance(S, src)), src)
    ELSE S

scan_identifier(S, src) ==
  LET S1 == scan_ident_chars(S, src)
      lexeme == SubSeq(Bytes(src), S1.start_pos + 1, S1.current_pos)
  IN [S |-> S1, token |-> make_token(S1, src, keyword_kind(lexeme))]

\* The '-' arm of next_token
scan_minus(S, src) ==
  IF peek(S, src) = ">"
    THEN LET S1 == advance(S, src) IN
         [S |-> S1, token |-> make_token(S1, src, "Arrow")]
    ELSE [S |-> S, token |-> make_token(S, src, "Minus")]

\* The ':' arm of next_token
scan_colon_greedy(S, src) ==
  IF peek(S, src) # None
    THEN LET S1 == advance(S, src) IN
         [S |-> S1, token |-> make_token(S1, src, "DoubleColon")]
    ELSE [S |-> S, token |-> make_token(S, src, "Colon")]

scan_colon(S, src) ==
  IF peek(S, src) = ":"
    THEN LET S1 == advance(S, src) IN
         [S |-> S1, token |-> make_token(S1, src, "DoubleColon")]
    ELSE [S |-> S, token |-> make_token(S, src, "Colon")]

\* The kinds of the fixed single-character tokens
single_char_kind_star_slash(c) ==
  CASE c = "{" -> "LeftBrace" [] c = "}" -> "RightBrace"
    [] c = "(" -> "LeftParen" [] c = ")" -> "RightParen"
    [] c = "=" -> "Equal"     [] c = "^" -> "Caret"
    [] c = "&" -> "Ampersand" [] c = "." -> "Dot"
    [] c = "," -> "Comma"     [] c = "+" -> "Plus"
    [] c = "*" -> "Slash"     [] c = "/" -> "Star"

single_char_kind(c) ==
  CASE c = "{" -> "LeftBrace" [] c = "}" -> "RightBrace"
    [] c = "(" -> "LeftParen" [] c = ")" -> "RightParen"
    [] c = "=" -> "Equal"     [] c = "^" -> "Caret"
    [] c = "&" -> "Ampersand" [] c = "." -> "Dot"
    [] c = "," -> "Comma"     [] c = "+" -> "Plus"
    [] c = "*" -> "Star"      [] c = "/" -> "Slash"

SingleChars == {"{", "}", "(", ")", "=", "^", "&", ".", ",", "+", "*", "/"}

\* The ';' arm of next_token
semicolon_silent(S, src) ==
  [S |-> S, token |-> make_token(S, src, "Illegal")]

semicolon(S, src) ==
  LET S1 == add_error(S, LexerError("UnnecessarySemicolon", None,
                                    Span(S.start_pos, S.current_pos)))
  IN [S |-> S1, token |-> make_token(S1, src, "Illegal")]

\* The fallback arm of next_token
unknown_char_reported(S, src) == semicolon(S, src)

unknown_char(S, src) ==
  [S |-> S, token |-> make_token(S, src, "Illegal")]

\* The match of next_token on the character c just consumed
dispatch(S, c, src) ==
  IF c \in SingleChars
    THEN [S |-> S, token |-> make_token(S, src, single_char_kind(c))]
  ELSE IF c = "-" THEN scan_minus(S, src)
  ELSE IF c = ":" THEN scan_colon(S, src)
  ELSE IF c = Newline THEN
    [S |-> [S EXCEPT !.line = @ + 1, !.column = 1],
     token |-> make_token(S, src, "Newline")]
  ELSE IF c = Quote THEN scan_string(S, src)
  ELSE IF is_ascii_digit(c) THEN scan_number(S, src)
  ELSE IF is_alphabetic(c) \/ c = "_" THEN scan_identifier(S, src)
  ELSE IF c = ";" THEN semicolon(S, src)
  ELSE unknown_char(S, src)

\* Step 2 of next_token: the token starts at the cursor
mark_start_skipped(S) == S

mark_start(S) == [S EXCEPT !.start_pos = S.current_pos]

next_token(S, src) ==
  LET S0 == skip_whitespace([S EXCEPT !.iters = 0], src)
      S1 == mark_start(S0)
      c == peek(S1, src)
      S2 == advance(S1, src)
  IN IF c # None
       THEN dispatch(S2, c, src)
       ELSE [S |-> S2,
             token |-> [kind |-> "Eof", lexeme |-> <<>>,
                        span |-> Span(S2.current_pos, S2.current_pos)]]

\* Iterator::next on the token next_token returned: None is <<>>, Some(t)
\* is <<t>>
iter_item_always_some(token) == <<token>>

iter_item(token) == IF token.kind = "Eof" THEN <<>> ELSE <<token>>

(***************************************************************************)
(* The sources scanned: every text of at most MaxLen characters over       *)
(* Alphabet, and the sample texts (those of src/src/tests.rs among them).  *)
(***************************************************************************)
Alphabet == {Quote, Backslash, Newline, " ", "n", "1", ".", "-", ">", ":",
             ";", "_", EAcute}

Samples ==
  { <<"1",".","5",".","6",".">>, <<"1",".","a">>, <<"1","2",".">>,
    <<"1","2","3"," ","9"," ","3",".","1","4"," ","0",".","5">>,
    <<"-","-",">",":",":",":">>, <<":","-",":",">","-">>, <<"-",">"," ",":",":"," ","=">>,
    <<"f","u","n"," ","m","y","_","v","a","r"," ","=",
      " ","s","t","r","u","c","t">>,
    <<"f","u","n"," ","f","u","n","n","y"," ","f","u","n","1",
      " ","F","u","n"," ","l","e","t","_">>,
    <<"l","e","t"," ","i","f"," ","e","l","s","e"," ","w","h","i","l","e">>,
    <<"r","e","t","u","r","n"," ","p","u","b"," ","u","s","e">>,
    <<"t","r","u","e"," ","f","a","l","s","e"," ","T","r","u","e">>,
    <<"i","f",EAcute," ","_","i","f"," ","i",ArabicThree>>,
    <<"a",":"," ","b"," ","=","\t","t","r","u","e","\r",Newline,"c">>,
    <<" ",Quote,"h","e","l","l","o",Backslash,"n","w","o","r","l","d",
      Quote," ">>,
    <<" ",Quote,"h","e","l","l","o"," ","w","o","r","l","d"," ">>,
    <<Quote,"a",Backslash,"q","b",Quote,";">>,
    <<Quote,Backslash,EAcute,Backslash,"1",Quote,"1">>,
    <<Quote,Backslash,Quote,Backslash,Backslash,Quote,Quote>>,
    <<Quote,Backslash,"t",Backslash,"r",Newline,Quote,"a">>,
    <<Quote,"a",Backslash,Newline,Backslash>>,
    <<"(",")","{","}",":",".",",","+","*","^","&","/">>,
    <<"@",";",Grinning,CjkMiddle,ArabicThree,"_">>,
    <<" ","\t","\r"," ">>, <<"\t">>, <<"\r","\r">>, <<" ",Newline,"\t">>,
    <<Quote,Backslash,Newline,Quote,Newline,"1">>,
    <<";",";"," ","1",";",Quote,";",Quote,";">>,
    <<">","@"," ",Grinning,ArabicThree,"1">>,
    <<"(",")","{","}","=",".",",","+","*","^","&","/">>,
    <<"\t",Quote,"a",Newline,EAcute,Quote,"\r">> }

StrAlphabet == {Quote, Backslash, Newline, "n", EAcute}

NumAlphabet == {"1", ".", "n", " "}

Texts(alphabet, max) == UNION {[1..n -> alphabet] : n \in 0..max}

Sources ==
  Texts(Alphabet, MaxLen) \cup Texts(StrAlphabet, MaxStrLen)
    \cup Texts(NumAlphabet, MaxNumLen) \cup Texts(SingleChars, MaxPunctLen)
    \cup Samples

\* The Lexer's fields and the collector, as one lexer state
Self ==
  [chars |-> chars, current_pos |-> current_pos, start_pos |-> start_pos,
   line |-> line, column |-> column, diagnostics |-> diagnostics,
   iters |-> 0]

\* The fields of a Lexer just constructed, over an empty collector
NewLexer ==
  [chars |-> 0, current_pos |-> 0, start_pos |-> 0, line |-> 1, column |-> 1,
   diagnostics |-> <<>>, iters |-> 0]

\* A second Lexer over the text src, before its first call
NewPeer(src) ==
  [source |-> src, chars |-> 0, current_pos |-> 0, start_pos |-> 0,
   line |-> 1, column |-> 1, tokens |-> <<>>]

\* Lexer::new over an empty collector
Init ==
  /\ source \in Sources
  /\ peer = NewPeer(<<>>)
  /\ origin = <<>>
  /\ chars = 0
  /\ current_pos = 0
  /\ start_pos = 0
  /\ line = 1
  /\ column = 1
  /\ diagnostics = <<>>
  /\ tokens = <<>>
  /\ calls = <<>>
  /\ ret = <<>>
  /\ op = "new"

\* What the call log keeps of a lexer state
Snapshot(S) ==
  [chars |-> S.chars, current_pos |-> S.current_pos,
   start_pos |-> S.start_pos, line |-> S.line, column |-> S.column,
   nerrs |-> Len(S.diagnostics)]

\* The number of calls that have returned Eof
EofCalls == Cardinality({k \in 1..Len(tokens) : tokens[k].kind = "Eof"})

\* The owner's name for each entry the collector gained in a call
Arrived(after, who) ==
  [k \in 1..(Len(after) - Len(diagnostics)) |-> who]

\* The Lexer after a call that ended in lexer state R.S with token R.token
Returned(R) ==
  /\ chars' = R.S.chars
  /\ current_pos' = R.S.current_pos
  /\ start_pos' = R.S.start_pos
  /\ line' = R.S.line
  /\ column' = R.S.column
  /\ diagnostics' = R.S.diagnostics
  /\ tokens' = Append(tokens, R.token)
  /\ calls' = Append(calls, [pre |-> Snapshot(Self), post |-> Snapshot(R.S),
                              iters |-> R.S.iters])
  /\ origin' = origin \o Arrived(R.S.diagnostics, "self")
  /\ UNCHANGED <<source, peer>>

\* A call of Lexer::next_token
NextToken ==
  /\ EofCalls < MaxEofCalls
  /\ LET R == next_token(Self, source) IN
       /\ Returned(R)
       /\ ret' = <<R.token>>
       /\ op' = "next_token"

\* A call of Iterator::next
IterNext ==
  /\ EofCalls < MaxEofCalls
  /\ LET R == next_token(Self, source) IN
       /\ Returned(R)
       /\ ret' = iter_item(R.token)
       /\ op' = "next"

Next == NextToken \/ IterNext

Spec == Init /\ [][Next]_vars

(***************************************************************************)
(* Two Lexers over different texts and one collector; their next_token     *)
(* calls interleave in any order.                                          *)
(***************************************************************************)
SharedAlphabet == {Quote, Backslash, ";"}

SharedSources ==
  Texts(SharedAlphabet, MaxSharedLen)
    \cup { <<";", " ", ";">>, <<Quote, Backslash, ";", Quote, ";">> }

InitShared ==
  /\ source \in SharedSources
  /\ \E src \in SharedSources \ {source} : peer = NewPeer(src)
  /\ origin = <<>>
  /\ chars = 0
  /\ current_pos = 0
  /\ start_pos = 0
  /\ line = 1
  /\ column = 1
  /\ diagnostics = <<>>
  /\ tokens = <<>>
  /\ calls = <<>>
  /\ ret = <<>>
  /\ op = "new"

\* The second Lexer's fields and the collector, as one lexer state
PeerSelf ==
  [chars |-> peer.chars, current_pos |-> peer.current_pos,
   start_pos |-> peer.start_pos, line |-> peer.line, column |-> peer.column,
   diagnostics |-> diagnostics, iters |-> 0]

\* A call of Lexer::next_token on the second Lexer, until it returns Eof
PeerNextToken ==
  /\ \A k \in 1..Len(peer.tokens) : peer.tokens[k].kind # "Eof"
  /\ LET R == next_token(PeerSelf, peer.source) IN
       /\ peer' = [peer EXCEPT !.chars = R.S.chars,
                               !.current_pos = R.S.current_pos,
                               !.start_pos = R.S.start_pos,
                               !.line = R.S.line,
                               !.column = R.S.column,
                               !.tokens = Append(@, R.token)]
       /\ diagnostics' = R.S.diagnostics
       /\ origin' = origin \o Arrived(R.S.diagnostics, "peer")
  /\ UNCHANGED <<source, chars, current_pos, start_pos, line, column, tokens,
                 calls, ret, op>>

NextShared == NextToken \/ PeerNextToken

SpecShared == InitShared /\ [][NextShared]_vars

(***************************************************************************)
(* Properties.  Each is stated of the last call; every earlier call is the *)
(* last call of an earlier state.  The texts are read by character index:  *)
(* Offset(src, i) is the byte offset at which character i begins.          *)
(***************************************************************************)
N == Len(Bytes(source))

Last == Len(tokens)

LastToken == tokens[Last]

RECURSIVE Offset(_, _)
Offset(src, i) ==
  IF i <= 1 THEN 0 ELSE Offset(src, i - 1) + Len(Utf8(src[i - 1]))

\* The index of the character that begins at byte offset pos (Len + 1 at the
\* end of the text, 0 if no character begins there)
CharIdx(src, pos) ==
  IF \E i \in 1..Len(src) + 1 : Offset(src, i) = pos
    THEN CHOOSE i \in 1..Len(src) + 1 : Offset(src, i) = pos
    ELSE 0

\* The character a token begins with (None for a token at the end)
FirstChar(t) ==
  LET i == CharIdx(source, t.span.start) IN
  IF i \in 1..Len(source) THEN source[i] ELSE None

\* The errors the collector received during the last call
NewErrors ==
  SubSeq(diagnostics, calls[Last].pre.nerrs + 1, calls[Last].post.nerrs)

\* C1: Iterator::next never yields an Eof token: it returns None exactly
\* when next_token returned an Eof token, and otherwise Some of that token,
\* unchanged.
IterNeverYieldsEof ==
  op = "next" =>
    /\ (ret = <<>>) <=> (LastToken.kind = "Eof")
    /\ LastToken.kind # "Eof" => ret = <<LastToken>>
    /\ \A i \in 1..Len(ret) : ret[i].kind # "Eof"

IterStopsAtEof ==
  /\ op = "next" /\ ret = <<>>
  /\ Last >= 2 /\ tokens[Last - 1].kind # "Eof"

\* C2: every call made before the end of the text moves the cursor forward,
\* every inner-loop iteration of the call consumes at least one byte (so
\* the loops exit), and a text of N bytes is exhausted after at most N + 1
\* calls.
ScanningTerminates ==
  Last >= 1 =>
    LET pre == calls[Last].pre
        post == calls[Last].post
    IN /\ pre.current_pos < N => post.current_pos > pre.current_pos
       /\ calls[Last].iters <= post.current_pos - pre.current_pos
       /\ post.current_pos <= N
       /\ Last >= N + 1 => LastToken.kind = "Eof" /\ (op = "next" => ret = <<>>)

LoopsExitThenNone ==
  /\ Last >= 3 /\ op = "next" /\ ret = <<>>
  /\ tokens[Last - 1].kind # "Eof"
  /\ calls[Last - 1].iters >= 2
  /\ calls[Last - 2].iters >= 2

\* C3: every token's span lies inside the text, start <= end, and its
\* lexeme is the bytes of the text in [start, end).
SpanAndLexemeAgree ==
  Last >= 1 =>
    LET t == LastToken IN
    /\ 0 <= t.span.start /\ t.span.start <= t.span.end /\ t.span.end <= N
    /\ t.lexeme = [b \in 1..(t.span.end - t.span.start) |->
                     Bytes(source)[t.span.start + b]]
    /\ Len(t.lexeme) = t.span.end - t.span.start

MultiByteTokenThenEof ==
  /\ Last >= 3 /\ LastToken.kind = "Eof"
  /\ tokens[Last - 1].kind = "Illegal"
  /\ \E k \in 1..Last :
       /\ tokens[k].kind = "Identifier"
       /\ Len(tokens[k].lexeme) > calls[k].post.chars - calls[k].pre.chars

\* C4: a token starts at or after the end of the token before it, and ends
\* at or after it.
SpansDoNotOverlap ==
  Last >= 2 =>
    /\ tokens[Last].span.start >= tokens[Last - 1].span.end
    /\ tokens[Last].span.end >= tokens[Last - 1].span.end

SpansAfterGap ==
  /\ Last >= 3
  /\ tokens[Last].span.start > tokens[Last - 1].span.end
  /\ tokens[Last - 1].span.start = tokens[Last - 2].span.end
  /\ tokens[Last - 2].span.end > tokens[Last - 2].span.start

\* The characters as the properties read them
Digits == {"0", "1", "2", "3", "4", "5", "6", "7", "8", "9"}

IdentStart ==
  {"F", "T", "a", "b", "c", "d", "e", "f", "h", "i", "l", "m", "n", "o", "p",
   "q", "r", "s", "t", "u", "v", "w", "y", "_", EAcute, CjkMiddle}

IdentPart == IdentStart \cup Digits \cup {ArabicThree}

\* The character at index i, None past the end
At(i) == IF i \in 1..Len(source) THEN source[i] ELSE None

\* The index just past the longest run of characters of set that starts at i
RunEnd(i, set) ==
  CHOOSE j \in i..Len(source) + 1 :
    /\ \A m \in i..(j - 1) : source[m] \in set
    /\ At(j) \notin set

\* C5: a token that begins with an ASCII digit is a Float exactly when the
\* digit run is followed by '.' and a digit, and then it ends after the
\* digits that follow the '.'; otherwise it is an Integer ending with the
\* digit run, and a '.' right after it is the next token, a Dot.
NumberLookahead ==
  /\ Last >= 1 =>
       LET t == LastToken
           i == CharIdx(source, t.span.start)
           j == RunEnd(i, Digits)
           frac == At(j) = "." /\ At(j + 1) \in Digits
       IN /\ t.kind \in {"Integer", "Float"} <=> FirstChar(t) \in Digits
          /\ FirstChar(t) \in Digits =>
               /\ t.kind = "Float" <=> frac
               /\ frac => t.lexeme = Bytes(SubSeq(source, i,
                                             RunEnd(j + 1, Digits) - 1))
               /\ ~frac => /\ t.kind = "Integer"
                           /\ t.lexeme = Bytes(SubSeq(source, i, j - 1))
  /\ Last >= 2 =>
       LET p == tokens[Last - 1] IN
       p.kind = "Integer" /\ At(CharIdx(source, p.span.end)) = "." =>
         /\ LastToken.kind = "Dot"
         /\ LastToken.span = [start |-> p.span.end, end |-> p.span.end + 1]

FloatDotIntegerDot ==
  /\ Last = 4
  /\ tokens[1].kind = "Float" /\ Len(tokens[1].lexeme) = 3
  /\ tokens[2].kind = "Dot"
  /\ tokens[3].kind = "Integer"
  /\ tokens[4].kind = "Dot" /\ tokens[4].span.start = tokens[3].span.end

\* C6: a token that begins with '-' is an Arrow of width 2 when '>' follows
\* and a Minus of width 1 otherwise; one that begins with ':' is a
\* DoubleColon of width 2 when ':' follows and a Colon of width 1 otherwise.
OneCharLookahead ==
  Last >= 1 =>
    LET t == LastToken
        i == CharIdx(source, t.span.start)
        width == t.span.end - t.span.start
    IN /\ t.kind \in {"Arrow", "Minus"} <=> FirstChar(t) = "-"
       /\ t.kind \in {"DoubleColon", "Colon"} <=> FirstChar(t) = ":"
       /\ FirstChar(t) = "-" =>
            IF At(i + 1) = ">" THEN t.kind = "Arrow" /\ width = 2
                               ELSE t.kind = "Minus" /\ width = 1
       /\ FirstChar(t) = ":" =>
            IF At(i + 1) = ":" THEN t.kind = "DoubleColon" /\ width = 2
                               ELSE t.kind = "Colon" /\ width = 1

MinusArrowDoubleColonColon ==
  /\ Last = 4
  /\ tokens[1].kind = "Minus" /\ tokens[2].kind = "Arrow"
  /\ tokens[3].kind = "DoubleColon" /\ tokens[4].kind = "Colon"
  /\ tokens[4].span.end = 6

\* C7: a token that begins with an alphabetic character or '_' is the
\* longest run of alphanumeric characters and '_' from there; it is a
\* keyword or Bool exactly when that whole run is the keyword, case and
\* all, and an Identifier otherwise.
KeywordOf(w) ==
  CASE w = <<"l","e","t">> -> "Let"
    [] w = <<"i","f">> -> "If"
    [] w = <<"e","l","s","e">> -> "Else"
    [] w = <<"w","h","i","l","e">> -> "While"
    [] w = <<"s","t","r","u","c","t">> -> "Struct"
    [] w = <<"f","u","n">> -> "Fun"
    [] w = <<"r","e","t","u","r","n">> -> "Return"
    [] w = <<"p","u","b">> -> "Pub"
    [] w = <<"u","s","e">> -> "Use"
    [] w = <<"t","r","u","e">> -> "Bool"
    [] w = <<"f","a","l","s","e">> -> "Bool"
    [] OTHER -> "Identifier"

WordKinds ==
  {"Let", "If", "Else", "While", "Struct", "Fun", "Return", "Pub", "Use",
   "Bool", "Identifier"}

IdentifierMaximalMunch ==
  Last >= 1 =>
    LET t == LastToken
        i == CharIdx(source, t.span.start)
        word == SubSeq(source, i, RunEnd(i, IdentPart) - 1)
    IN /\ t.kind \in WordKinds <=> FirstChar(t) \in IdentStart
       /\ FirstChar(t) \in IdentStart =>
            /\ t.lexeme = Bytes(word)
            /\ t.kind = KeywordOf(word)

KeywordThenLongerIdentifier ==
  /\ Last = 2
  /\ tokens[1].kind = "Fun"
  /\ tokens[2].kind = "Identifier"
  /\ tokens[2].lexeme = Bytes(<<"f","u","n","n","y">>)

\* String literals as the properties read them.  From index j inside a
\* literal, a backslash pairs with the character after it; Close is the
\* index of the first quote that is not the second half of a pair, 0 if the
\* text ends first.
ValidEscapes == {Quote, Backslash, "n", "r", "t"}

RECURSIVE Close(_)
Close(j) ==
  IF j > Len(source) THEN 0
  ELSE IF source[j] = Quote THEN j
  ELSE IF source[j] = Backslash
    THEN IF j + 1 > Len(source) THEN 0 ELSE Close(j + 2)
  ELSE Close(j + 1)

\* The InvalidEscapeSequence errors a literal entered at index j calls for
RECURSIVE InvalidEscapes(_)
InvalidEscapes(j) ==
  IF j > Len(source) \/ source[j] = Quote THEN <<>>
  ELSE IF source[j] = Backslash
    THEN IF j + 1 > Len(source) THEN <<>>
         ELSE (IF source[j + 1] \in ValidEscapes THEN <<>>
               ELSE <<[kind |-> "InvalidEscapeSequence", ch |-> source[j + 1],
                       span |-> [start |-> Offset(source, j),
                                 end |-> Offset(source, j + 2)]]>>)
              \o InvalidEscapes(j + 2)
  ELSE InvalidEscapes(j + 1)

IsUnterminated(e) == e.kind = "UnterminatedString"

IsInvalidEscape(e) == e.kind = "InvalidEscapeSequence"

\* C8: a string literal that the text ends inside of records exactly one
\* UnterminatedString error, spanning from the opening quote to the end of
\* the text, as the last error of the call; the call returns an Illegal
\* token with that span, and the call after it returns Eof.  No other call
\* records an UnterminatedString error.
UnterminatedStringRecovery ==
  /\ Last >= 1 =>
       LET t == LastToken
           i == CharIdx(source, t.span.start)
           open == FirstChar(t) = Quote /\ Close(i + 1) = 0
           whole == [start |-> Offset(source, i), end |-> N]
       IN /\ open =>
               /\ t.kind = "Illegal"
               /\ t.span = whole
               /\ SelectSeq(NewErrors, IsUnterminated) =
                    <<[kind |-> "UnterminatedString", ch |-> None,
                       span |-> whole]>>
               /\ IsUnterminated(NewErrors[Len(NewErrors)])
          /\ ~open => SelectSeq(NewErrors, IsUnterminated) = <<>>
  /\ Last >= 2 =>
       LET p == tokens[Last - 1] IN
       FirstChar(p) = Quote /\ p.kind = "Illegal" =>
         /\ LastToken.kind = "Eof"
         /\ op = "next" => ret = <<>>

DanglingEscapeThenEof ==
  /\ Last >= 2 /\ op = "next" /\ ret = <<>>
  /\ tokens[Last - 1].kind = "Illegal"
  /\ FirstChar(tokens[Last - 1]) = Quote
  /\ source[Len(source)] = Backslash
  /\ Len(diagnostics) = 2
  /\ IsInvalidEscape(diagnostics[1]) /\ IsUnterminated(diagnostics[2])

\* C9: the InvalidEscapeSequence errors of a call are those of the pairs
\* of its literal whose second character is not a valid escape, in order,
\* each carrying that character and spanning the backslash and it; the
\* literal still ends at its closing quote as a String token.
InvalidEscapeNonFatal ==
  Last >= 1 =>
    LET t == LastToken
        i == CharIdx(source, t.span.start)
        c == Close(i + 1)
    IN IF FirstChar(t) = Quote
         THEN /\ SelectSeq(NewErrors, IsInvalidEscape) = InvalidEscapes(i + 1)
              /\ c # 0 =>
                   /\ t.kind = "String"
                   /\ t.span = [start |-> Offset(source, i),
                                end |-> Offset(source, c + 1)]
                   /\ NewErrors = InvalidEscapes(i + 1)
         ELSE SelectSeq(NewErrors, IsInvalidEscape) = <<>>

StringWithInvalidEscapes ==
  /\ Last >= 1 /\ LastToken.kind = "String"
  /\ Len(NewErrors) = 2
  /\ NewErrors[1].ch = EAcute
  /\ NewErrors[1].span.end - NewErrors[1].span.start = 3
  /\ NewErrors[2].ch = "1"
  /\ LastToken.span.end > NewErrors[2].span.end

\* C10: a terminated literal whose backslashes are all followed by a valid
\* escape is one String token, its lexeme the text from the opening quote
\* through the closing quote, and records nothing.
ValidStringIsVerbatim ==
  Last >= 1 =>
    LET t == LastToken
        i == CharIdx(source, t.span.start)
        c == Close(i + 1)
    IN /\ t.kind = "String" => FirstChar(t) = Quote /\ c # 0
       /\ FirstChar(t) = Quote /\ c # 0 /\ InvalidEscapes(i + 1) = <<>> =>
            /\ t.kind = "String"
            /\ t.lexeme = Bytes(SubSeq(source, i, c))
            /\ NewErrors = <<>>
            /\ calls[Last].post.chars = c

EscapedQuoteDoesNotClose ==
  /\ Last = 1 /\ LastToken.kind = "String" /\ diagnostics = <<>>
  /\ LastToken.lexeme = Bytes(<<Quote, Backslash, Quote, Backslash,
                                Backslash, Quote>>)
  /\ Len(source) > 6

\* C11: the line counter is one more than the number of '\n' characters
\* consumed so far, wherever they were consumed.
LineCountsNewlines ==
  line = 1 + Cardinality({i \in 1..chars : source[i] = Newline})

\* C12, as stated: a text of whitespace alone, the newline included, gives
\* an empty token stream and no diagnostics.
Whitespace == {" ", "\t", "\r", Newline}

WhitespaceOnlyIsEmpty ==
  (\A i \in 1..Len(source) : source[i] \in Whitespace) /\ Last >= 1 =>
    /\ tokens[1].kind = "Eof"
    /\ diagnostics = <<>>

\* C12, amended: a text of spaces, tabs and carriage returns alone gives an
\* empty token stream (the first call returns Eof, next() returns None)
\* and no diagnostics.
HorizontalWhitespace == {" ", "\t", "\r"}

HorizontalWhitespaceOnlyIsEmpty ==
  (\A i \in 1..Len(source) : source[i] \in HorizontalWhitespace)
    /\ Last >= 1 =>
      /\ tokens[1].kind = "Eof"
      /\ tokens[1].span = [start |-> N, end |-> N]
      /\ Last = 1 /\ op = "next" => ret = <<>>
      /\ diagnostics = <<>>

WhitespaceTextEnded ==
  /\ Len(source) = 4
  /\ \A i \in 1..Len(source) : source[i] \in HorizontalWhitespace
  /\ \E i \in 1..Len(source) : source[i] = "\r"
  /\ \E i \in 1..Len(source) : source[i] = "\t"
  /\ Last = 1 /\ op = "next" /\ ret = <<>>

\* C13: a token that begins with ';' is an Illegal token of that one
\* byte; its call records exactly one UnnecessarySemicolon error with the
\* same span and stops right after the ';'.  No other call records one.
IsSemicolonError(e) == e.kind = "UnnecessarySemicolon"

SemicolonIsReported ==
  Last >= 1 =>
    LET t == LastToken
        i == CharIdx(source, t.span.start)
        one == [start |-> Offset(source, i), end |-> Offset(source, i) + 1]
    IN IF FirstChar(t) = ";"
         THEN /\ t.kind = "Illegal"
              /\ t.span = one
              /\ NewErrors = <<[kind |-> "UnnecessarySemicolon", ch |-> None,
                                span |-> one]>>
              /\ calls[Last].post.chars = i
              /\ calls[Last].post.current_pos = one.end
         ELSE SelectSeq(NewErrors, IsSemicolonError) = <<>>

SemicolonsThenNumber ==
  /\ Last = 3
  /\ FirstChar(tokens[1]) = ";" /\ FirstChar(tokens[2]) = ";"
  /\ tokens[3].kind = "Integer"
  /\ Len(diagnostics) = 2
  /\ diagnostics[2].span = [start |-> 1, end |-> 2]

\* C14: a token that begins with one of the twelve fixed punctuation
\* characters is the token of that character's kind, one byte wide, and
\* records nothing; in a text of such characters alone the k-th token is
\* the k-th character, and the call after the last returns Eof.
PunctKind(c) ==
  CASE c = "{" -> "LeftBrace" [] c = "}" -> "RightBrace"
    [] c = "(" -> "LeftParen" [] c = ")" -> "RightParen"
    [] c = "=" -> "Equal" [] c = "^" -> "Caret" [] c = "&" -> "Ampersand"
    [] c = "." -> "Dot" [] c = "," -> "Comma" [] c = "+" -> "Plus"
    [] c = "*" -> "Star" [] c = "/" -> "Slash"

Punctuation == {"{", "}", "(", ")", "=", "^", "&", ".", ",", "+", "*", "/"}

PunctKinds == {PunctKind(c) : c \in Punctuation}

SinglePunctuationTokens ==
  Last >= 1 =>
    LET t == LastToken IN
    /\ t.kind \in PunctKinds <=> FirstChar(t) \in Punctuation
    /\ FirstChar(t) \in Punctuation =>
         /\ t.kind = PunctKind(FirstChar(t))
         /\ t.span.end = t.span.start + 1
         /\ NewErrors = <<>>
    /\ (\A i \in 1..Len(source) : source[i] \in Punctuation) =>
         /\ diagnostics = <<>>
         /\ IF Last <= Len(source)
              THEN /\ t.kind = PunctKind(source[Last])
                   /\ t.span = [start |-> Last - 1, end |-> Last]
              ELSE t.kind = "Eof"

PunctuationRunEnded ==
  /\ Len(source) = 12 /\ Last = 13
  /\ \A i \in 1..12 : source[i] \in Punctuation
  /\ \A i \in 1..12 : tokens[i].kind = PunctKind(source[i])
  /\ Cardinality({tokens[i].kind : i \in 1..12}) = 12
  /\ op = "next" /\ ret = <<>>

\* C16: a token that begins with a character no rule names is an Illegal
\* token of exactly that character, and its call records nothing.
UnknownCharIsSilent ==
  Last >= 1 =>
    LET t == LastToken
        i == CharIdx(source, t.span.start)
        c == FirstChar(t)
    IN /\ c \notin HorizontalWhitespace
       /\ c # None /\ c \notin Punctuation \cup {"-", ":", Newline, Quote, ";"}
                   /\ c \notin Digits \cup IdentStart =>
            /\ t.kind = "Illegal"
            /\ t.span = [start |-> Offset(source, i),
                         end |-> Offset(source, i + 1)]
            /\ NewErrors = <<>>
            /\ calls[Last].post.chars = i

UnknownCharsOfAllWidths ==
  /\ Last = 4 /\ diagnostics = <<>>
  /\ \A k \in 1..4 : tokens[k].kind = "Illegal"
  /\ tokens[1].span.end - tokens[1].span.start = 1
  /\ tokens[3].span.end - tokens[3].span.start = 4
  /\ tokens[4].span.end - tokens[4].span.start = 2

\* C18: once a call has returned Eof, the next call returns the same
\* zero-width Eof token at the end of the text and changes nothing of the
\* lexer or the collector.
EofIsAbsorbing ==
  /\ Last >= 1 /\ LastToken.kind = "Eof" =>
       /\ LastToken = [kind |-> "Eof", lexeme |-> <<>>,
                       span |-> [start |-> N, end |-> N]]
       /\ op = "next" => ret = <<>>
  /\ Last >= 2 /\ tokens[Last - 1].kind = "Eof" =>
       /\ LastToken = tokens[Last - 1]
       /\ calls[Last].post.current_pos = calls[Last].pre.current_pos
       /\ calls[Last].post.line = calls[Last].pre.line
       /\ calls[Last].post.column = calls[Last].pre.column
       /\ calls[Last].post.chars = calls[Last].pre.chars
       /\ NewErrors = <<>>
       /\ diagnostics = SubSeq(diagnostics, 1, calls[Last - 1].post.nerrs)

EofReturnedTwice ==
  /\ Last >= 4
  /\ tokens[Last].kind = "Eof" /\ tokens[Last - 1].kind = "Eof"
  /\ tokens[Last - 2].kind # "Eof"
  /\ diagnostics # <<>> /\ line > 1

\* The variants of enum TokenType as tokens.rs declares them
TokenType ==
  {"LeftBrace", "RightBrace", "LeftParen", "RightParen", "Colon", "Equal",
   "Arrow", "Caret", "Ampersand", "Dot", "Comma", "Plus", "Minus", "Star",
   "Slash", "Identifier", "Integer", "String", "Let", "If", "Else", "While",
   "Struct", "Fun", "Return", "Pub", "Use", "Newline", "Eof", "Illegal"}

\* C15: every kind the scanner gives a token is a variant of TokenType.
EmittedKindsAreDeclared ==
  Last >= 1 => LastToken.kind \in TokenType

\* C19: the byte cursor is the sum of the encoded widths (1 to 4 bytes) of
\* the characters consumed, so start_pos and current_pos lie on character
\* boundaries with start_pos <= current_pos <= N, as do both ends of every
\* InvalidEscapeSequence span, whose start is the backslash; a call that
\* does not change the line moves the column by one per character.
Utf8PositionTracking ==
  /\ 0 <= start_pos /\ start_pos <= current_pos /\ current_pos <= N
  /\ current_pos = Offset(source, chars + 1)
  /\ CharIdx(source, start_pos) # 0
  /\ \A k \in 1..Len(diagnostics) :
       IsInvalidEscape(diagnostics[k]) =>
         LET b == CharIdx(source, diagnostics[k].span.start) IN
         /\ b \in 1..Len(source) /\ source[b] = Backslash
         /\ diagnostics[k].span.end = Offset(source, b + 2)
  /\ Last >= 1 =>
       LET pre == calls[Last].pre
           post == calls[Last].post
       IN /\ \A i \in (pre.chars + 1)..post.chars :
               Len(Utf8(source[i])) \in 1..4
          /\ post.current_pos - pre.current_pos =
               Offset(source, post.chars + 1) - Offset(source, pre.chars + 1)
          /\ post.line = pre.line =>
               post.column - pre.column = post.chars - pre.chars

MultiByteEscapeScanned ==
  /\ Last = 1 /\ LastToken.kind = "String"
  /\ current_pos = chars + 1
  /\ Len(diagnostics) = 2 /\ diagnostics[1].ch = EAcute
  /\ diagnostics[2].span.start = 4
  /\ column = 1 + chars

\* C20: the bytes between the end of one token and the start of the next
\* (from offset 0 for the first token) are spaces, tabs and carriage
\* returns only, every token's lexeme is the text of its span, and the Eof
\* token sits at the end of the text.
SkippedBytes == {32, 9, 13}

NoTextDropped ==
  Last >= 1 =>
    LET t == LastToken
        from == IF Last = 1 THEN 0 ELSE tokens[Last - 1].span.end
    IN /\ from <= t.span.start
       /\ \A b \in (from + 1)..t.span.start : Bytes(source)[b] \in SkippedBytes
       /\ t.lexeme = SubSeq(Bytes(source), t.span.start + 1, t.span.end)
       /\ t.kind = "Eof" => t.span.start = N

GapsAroundString ==
  /\ Last = 2 /\ LastToken.kind = "Eof"
  /\ tokens[1].kind = "String"
  /\ tokens[1].span.start = 1 /\ tokens[1].span.end = N - 1
  /\ \E i \in 1..Len(source) : source[i] = Newline

\* A Lexer run alone over src for k calls, with a collector of its own
RECURSIVE SoloRun(_, _)
SoloRun(src, k) ==
  IF k = 0 THEN [S |-> NewLexer, tokens |-> <<>>]
  ELSE LET before == SoloRun(src, k - 1)
           R == next_token(before.S, src)
       IN [S |-> R.S, tokens |-> Append(before.tokens, R.token)]

\* The entries of the collector that arrived in calls of who, in order
RECURSIVE OwnedBy(_, _)
OwnedBy(who, n) ==
  IF n = 0 THEN <<>>
  ELSE IF origin[n] = who THEN Append(OwnedBy(who, n - 1), diagnostics[n])
  ELSE OwnedBy(who, n - 1)

\* C17: with the calls of two Lexers on one collector interleaved, each
\* Lexer's tokens are those of its run alone, and the collector holds the
\* errors of both runs alone, each run's in its own order, none changed or
\* lost.
SharedCollectorInterleaving ==
  /\ Len(origin) = Len(diagnostics)
  /\ tokens = SoloRun(source, Len(tokens)).tokens
  /\ peer.tokens = SoloRun(peer.source, Len(peer.tokens)).tokens
  /\ OwnedBy("self", Len(origin)) =
       SoloRun(source, Len(tokens)).S.diagnostics
  /\ OwnedBy("peer", Len(origin)) =
       SoloRun(peer.source, Len(peer.tokens)).S.diagnostics

ErrorsInterleaved ==
  /\ Len(origin) = 4
  /\ origin = <<"peer", "self", "peer", "self">>
  /\ tokens[Len(tokens)].kind = "Eof"
  /\ peer.tokens[Len(peer.tokens)].kind = "Eof"
  /\ diagnostics[2].kind = "InvalidEscapeSequence"

====
